---------------------------- MODULE Spec2Model ----------------------------
(* A model of src/notification-manager.js: the NotificationManager class,   *)
(* its three fields, its async methods cut at their await points, and the   *)
(* browser platform it talks to (Notification.permission, the permission    *)
(* prompt, navigator.serviceWorker.ready, registration.showNotification).   *)
EXTENDS Integers, Sequences, FiniteSets, TLC

VARIABLES
  swRegistration,     \* this.swRegistration: "null" or "registration"
  permissionGranted,  \* this.permissionGranted
  isInitialized,      \* this.isInitialized
  permission,         \* Notification.permission, owned by the platform
  hasServiceWorker,   \* 'serviceWorker' in navigator
  hasNotification,    \* 'Notification' in window
  now,                \* Date.now()
  call,               \* the in-flight (or last finished) call of each caller
  ev,                 \* what the last step did at the manager boundary
  everGranted,        \* history: permissionGranted has been true
  page                \* the document and the script's load, lines 200-210

vars == <<swRegistration, permissionGranted, isInitialized, permission,
          hasServiceWorker, hasNotification, now, call, ev, everGranted,
          page>>

-----------------------------------------------------------------------------
(* Bounds *)

MaxClock == 2

Callers == {"a", "b"}

-----------------------------------------------------------------------------
(* JavaScript values: a type tag and the text String(v) gives. *)

JS(t, s) == [t |-> t, s |-> s]

Undefined == JS("undefined", "undefined")
Null      == JS("null", "null")
True      == JS("boolean", "true")
False     == JS("boolean", "false")
Num(n)    == JS("number", ToString(n))
Str(s)    == JS("string", s)
Obj(s)    == JS("object", s)

Bool(b) == IF b THEN True ELSE False

\* ToBoolean(v) = false
Falsy(v) ==
  \/ v.t \in {"undefined", "null"}
  \/ v.t = "boolean" /\ v.s = "false"
  \/ v.t = "number" /\ v.s \in {"0", "NaN"}
  \/ v.t = "string" /\ v.s = ""

\* a || b
Or(a, b) == IF Falsy(a) THEN b ELSE a

\* `${prefix}${v}`
Template(prefix, v) == Str(prefix \o v.s)

-----------------------------------------------------------------------------
(* Notification options *)

Fields == {"body", "icon", "badge", "tag", "requireInteraction", "vibrate",
           "data", "silent", "timestamp"}

NoFields == [f \in Fields |-> Undefined]

DefaultBody    == Str("new-message-text")   \* '您有新消息'
DefaultIcon    == Str("https://s3plus.meituan.net/opapisdk/op_ticket_885190757_1758510900942_qdqqd_djw0z2.jpeg")
DefaultVibrate == Obj("[200,100,200]")
EmptyData      == Obj("{}")

\* notificationOptions with requireInteraction opt-in (=== true)
notificationOptionsInteractionOptIn(options, t) ==
  [ body               |-> Or(options.body, DefaultBody),
    icon               |-> Or(options.icon, DefaultIcon),
    badge              |-> Or(options.badge, DefaultIcon),
    tag                |-> Or(options.tag, Template("msg-", Num(t))),
    requireInteraction |-> Bool(options.requireInteraction = True),
    vibrate            |-> Or(options.vibrate, DefaultVibrate),
    data               |-> Or(options.data, EmptyData),
    silent             |-> Or(options.silent, False),
    timestamp          |-> Or(options.timestamp, Num(t)) ]

\* notificationOptions with requireInteraction defaulted like the other
\* fields (|| true)
notificationOptionsInteractionOr(options, t) ==
  [ body               |-> Or(options.body, DefaultBody),
    icon               |-> Or(options.icon, DefaultIcon),
    badge              |-> Or(options.badge, DefaultIcon),
    tag                |-> Or(options.tag, Template("msg-", Num(t))),
    requireInteraction |-> Or(options.requireInteraction, True),
    vibrate            |-> Or(options.vibrate, DefaultVibrate),
    data               |-> Or(options.data, EmptyData),
    silent             |-> Or(options.silent, False),
    timestamp          |-> Or(options.timestamp, Num(t)) ]

\* lines 121-131: the object literal built from `options` at time t (both
\* reads of Date.now(), lines 125 and 130, fall in the same millisecond)
notificationOptions(options, t) ==
  [ body               |-> Or(options.body, DefaultBody),
    icon               |-> Or(options.icon, DefaultIcon),
    badge              |-> Or(options.badge, DefaultIcon),
    tag                |-> Or(options.tag, Template("msg-", Num(t))),
    requireInteraction |-> Bool(options.requireInteraction # False),
    vibrate            |-> Or(options.vibrate, DefaultVibrate),
    data               |-> Or(options.data, EmptyData),
    silent             |-> Or(options.silent, False),
    timestamp          |-> Or(options.timestamp, Num(t)) ]


-----------------------------------------------------------------------------
(* Calls.  A call is a stack of suspended frames, each named by the source  *)
(* line of the await it is suspended at:                                    *)
(*   32  init            await navigator.serviceWorker.ready                *)
(*   36  init            await this.checkPermission()                       *)
(*   66  checkPermission return await this.requestPermission()              *)
(*   75  requestPermission await Notification.requestPermission()           *)
(*   96  showNotification  await this.init()                                *)
(*  106  showNotification  await this.requestPermission()                   *)
(*  134  showNotification  await this.swRegistration.showNotification(..)   *)
(*  148, 165, 180  the wrappers' return await this.showNotification(..)     *)
(* The top frame waits on the platform (32, 75, 134) or on a callee that    *)
(* has returned `ret`.  An empty stack with op # "idle" is a finished call  *)
(* whose result is `ret`.                                                   *)

PlatformAwaits == {32, 75, 134}

Front(s) == SubSeq(s, 1, Len(s) - 1)
Top(s)   == s[Len(s)]

\* the `options` argument: undefined (defaulted to {}), null, or an object
Arg(t, o) == [t |-> t, o |-> o]
NoArg     == Arg("undefined", NoFields)

IdleCall ==
  [ op         |-> "idle",
    title      |-> Undefined,   \* showNotification's title
    options    |-> NoArg,       \* showNotification's options
    stack      |-> <<>>,
    ret        |-> "none",      \* "none", "true", "false", "throw", "status"
    nPrompt    |-> 0,           \* prompts issued by this call
    nDisplay   |-> 0,           \* display calls issued by this call
    displayRes |-> "none",      \* "ok" or "throw" once the display call settled
    wasInit    |-> FALSE,       \* isInitialized as showNotification read it
    initRet    |-> "none",      \* what showNotification's await this.init() gave
    readyRes   |-> "none",      \* "ok" or "reject" once the readiness wait settled
    chkRead    |-> "none",      \* Notification.permission as checkPermission read it
    promptRes  |-> "none",      \* how the last prompt settled
    args       |-> <<>>,        \* a wrapper's arguments
    sent       |-> NoFields,    \* the options given to the display primitive
    noWorker   |-> FALSE ]      \* the abort of lines 114-117 was taken

NoStatus == [permission |-> "-", granted |-> FALSE, initialized |-> FALSE]

NoEv ==
  [ kind |-> "none", c |-> "-", fn |-> "-", val |-> "-",
    title |-> Undefined, options |-> NoFields, status |-> NoStatus,
    k |-> IdleCall ]

Event(kind, c, fn, val) ==
  [NoEv EXCEPT !.kind = kind, !.c = c, !.fn = fn, !.val = val]

InFlight(k) == k.stack # <<>>
Finished(k) == k.op # "idle" /\ k.stack = <<>>

\* the manager's fields, one call and the event of the step, threaded through
\* the synchronous code between two suspensions
Ctx(c) ==
  [ sw |-> swRegistration, pg |-> permissionGranted, ini |-> isInitialized,
    k |-> call[c], e |-> NoEv ]

\* function fn returns v to its caller (or to the user of the manager); the
\* event keeps the call as it is at the return
Returned(x, c, fn, v) ==
  LET k == [x.k EXCEPT !.ret = v] IN
  [x EXCEPT !.k = k, !.e = [Event("ret", c, fn, v) EXCEPT !.k = k]]

\* the top frame resumes
Pop(x) == [x EXCEPT !.k.stack = Front(@)]

Suspend(x, line) == [x EXCEPT !.k.stack = Append(@, line), !.k.ret = "none"]

-----------------------------------------------------------------------------
(* requestPermission, lines 72-85 *)

\* up to the await of line 75; `from` is the function that called it
requestPermission(x, c, from) ==
  IF ~hasNotification
    THEN \* ReferenceError inside the try
         Returned([x EXCEPT !.k.promptRes = "throw"], c, "requestPermission", "false")
    ELSE [Suspend(x, 75) EXCEPT !.k.nPrompt = @ + 1,
                                !.e = Event("prompt", c, from, "-")]

\* from the await of line 75 on; outcome is the prompt's value or "throw"
requestPermissionSettled(x, c, outcome) ==
  IF outcome = "throw"
    THEN Returned([x EXCEPT !.k.promptRes = "throw"], c, "requestPermission", "false")
    ELSE Returned([x EXCEPT !.pg = (outcome = "granted"), !.k.promptRes = outcome],
                  c, "requestPermission",
                  IF outcome = "granted" THEN "true" ELSE "false")

-----------------------------------------------------------------------------
(* checkPermission, lines 50-67 *)

\* checkPermission without its "denied" branch: a denied permission falls
\* through to the prompt
checkPermissionPromptingWhenDenied(x, c) ==
  IF ~hasNotification
    THEN Returned(x, c, "checkPermission", "throw")
    ELSE LET y == [x EXCEPT !.k.chkRead = permission] IN
         IF permission = "granted"
           THEN Returned([y EXCEPT !.pg = TRUE], c, "checkPermission", "true")
           ELSE requestPermission([y EXCEPT !.k.stack = Append(@, 66)], c,
                                  "checkPermission")

checkPermission(x, c) ==
  IF ~hasNotification
    THEN \* ReferenceError at line 51: the promise rejects
         Returned(x, c, "checkPermission", "throw")
    ELSE LET y == [x EXCEPT !.k.chkRead = permission] IN
         CASE permission = "granted" ->
                Returned([y EXCEPT !.pg = TRUE], c, "checkPermission", "true")
           [] permission = "denied" ->
                Returned([y EXCEPT !.pg = FALSE], c, "checkPermission", "false")
           [] OTHER ->
                requestPermission([y EXCEPT !.k.stack = Append(@, 66)], c,
                                  "checkPermission")

\* line 66 resumed with requestPermission's result
\* checkPermission awaiting, after the prompt, something that never settles
checkPermissionRequestedNeverDone(x, c) ==
  Suspend(x, 66)

\* line 66 resumed with requestPermission's result
checkPermissionRequested(x, c) ==
  Returned(x, c, "checkPermission", x.k.ret)

-----------------------------------------------------------------------------
(* init, lines 16-45 *)

\* init setting isInitialized before the readiness wait instead of after it
initMarkingFirst(x, c) ==
  IF ~hasServiceWorker \/ ~hasNotification
    THEN Returned(x, c, "init", "false")
    ELSE [Suspend([x EXCEPT !.ini = TRUE], 32) EXCEPT
            !.e = Event("ready", c, "init", "-")]

\* lines 16-32, up to the readiness wait
init(x, c) ==
  IF ~hasServiceWorker \/ ~hasNotification
    THEN Returned(x, c, "init", "false")
    ELSE [Suspend(x, 32) EXCEPT !.e = Event("ready", c, "init", "-")]

\* initReady with a catch that clears the worker context
initReadyClearingOnReject(x, c, ok) ==
  IF ok
    THEN checkPermission([x EXCEPT !.sw = "registration", !.k.readyRes = "ok",
                                   !.k.stack = Append(@, 36)], c)
    ELSE Returned([x EXCEPT !.sw = "null", !.k.readyRes = "reject"], c,
                  "init", "false")

\* line 32 resumed: the readiness wait resolved (ok) or rejected
initReady(x, c, ok) ==
  IF ok
    THEN checkPermission([x EXCEPT !.sw = "registration", !.k.readyRes = "ok",
                                   !.k.stack = Append(@, 36)], c)
    ELSE Returned([x EXCEPT !.k.readyRes = "reject"], c, "init", "false")

\* initChecked succeeding only when the permission was granted
initCheckedNeedingGrant(x, c) ==
  IF x.k.ret # "true"
    THEN Returned(x, c, "init", "false")
    ELSE Returned([x EXCEPT !.ini = TRUE], c, "init", "true")

\* line 36 resumed with checkPermission's result
initChecked(x, c) ==
  IF x.k.ret = "throw"
    THEN Returned(x, c, "init", "false")
    ELSE Returned([x EXCEPT !.ini = TRUE], c, "init", "true")

-----------------------------------------------------------------------------
(* showNotification, lines 92-142 *)

\* lines 113-134
showDispatch(x, c) ==
  IF x.sw = "null"
    THEN Returned([x EXCEPT !.k.noWorker = TRUE], c, "showNotification", "false")
    ELSE IF x.k.options.t = "null"
      THEN \* TypeError reading options.body inside the try
           Returned(x, c, "showNotification", "false")
      ELSE LET o == notificationOptions(x.k.options.o, now) IN
           [Suspend(x, 134) EXCEPT
              !.k.nDisplay = @ + 1,
              !.k.sent = o,
              !.e = [Event("display", c, "showNotification", "-") EXCEPT
                       !.title = x.k.title,
                       !.options = o]]

\* lines 103-111
showPermission(x, c) ==
  IF ~x.pg
    THEN requestPermission([x EXCEPT !.k.stack = Append(@, 106)], c,
                           "showNotification")
    ELSE showDispatch(x, c)

\* lines 92-101
showNotification(x, c) ==
  LET y == [x EXCEPT !.k.wasInit = x.ini] IN
  IF ~x.ini
    THEN init([y EXCEPT !.k.stack = Append(@, 96)], c)
    ELSE showPermission(y, c)

\* showInitDone without the check of init's result
showInitDoneIgnoringFailure(x, c) ==
  showPermission([x EXCEPT !.k.initRet = x.k.ret], c)

\* line 96 resumed with init's result
showInitDone(x, c) ==
  LET y == [x EXCEPT !.k.initRet = x.k.ret] IN
  IF x.k.ret # "true"
    THEN Returned(y, c, "showNotification", "false")
    ELSE showPermission(y, c)

\* line 106 resumed with requestPermission's result
showRequested(x, c) ==
  IF x.k.ret # "true"
    THEN Returned(x, c, "showNotification", "false")
    ELSE showDispatch(x, c)

\* showDisplayed without the catch's return false
showDisplayedIgnoringError(x, c, ok) ==
  Returned([x EXCEPT !.k.displayRes = IF ok THEN "ok" ELSE "throw"], c,
           "showNotification", "true")

\* line 134 resumed: the display call resolved (ok) or rejected
showDisplayed(x, c, ok) ==
  Returned([x EXCEPT !.k.displayRes = IF ok THEN "ok" ELSE "throw"], c,
           "showNotification", IF ok THEN "true" ELSE "false")


-----------------------------------------------------------------------------
(* The wrappers, lines 147-186, and getPermissionStatus, lines 191-197 *)

TestVibrate == Obj("[200,100,200,100,200]")

\* lines 147-159, up to the await
notifyNewMessage(x, c, chatName, messageContent, chatId) ==
  showNotification(
    [x EXCEPT
       !.k.stack = Append(@, 148),
       !.k.args = <<chatName, messageContent, chatId>>,
       !.k.title = Template("", chatName),
       !.k.options = Arg("object",
          [NoFields EXCEPT
             !.body = messageContent,
             !.tag = Template("chat-", chatId),
             !.data = Obj("{type:'chat',chatId:" \o chatId.s \o ",timestamp:"
                          \o ToString(now) \o "}"),
             !.requireInteraction = True,
             !.vibrate = DefaultVibrate])], c)

\* lines 164-173, up to the await
notifySystem(x, c, message) ==
  showNotification(
    [x EXCEPT
       !.k.stack = Append(@, 165),
       !.k.args = <<message>>,
       !.k.title = Str("EPhone"),
       !.k.options = Arg("object",
          [NoFields EXCEPT
             !.body = message,
             !.tag = Str("system"),
             !.data = Obj("{type:'system'}"),
             !.requireInteraction = False])], c)

\* lines 178-186, up to the await
testNotification(x, c) ==
  showNotification(
    [x EXCEPT
       !.k.stack = Append(@, 180),
       !.k.title = Str("test-title"),          \* '测试通知'
       !.k.options = Arg("object",
          [NoFields EXCEPT
             !.body = Str("test-body"),        \* '如果你看到这条通知，...'
             !.tag = Str("test"),
             !.requireInteraction = True,
             !.vibrate = TestVibrate])], c)

\* a wrapper's return await resumed with showNotification's result
wrapperReturned(x, c) ==
  Returned(x, c, x.k.op, x.k.ret)

\* getPermissionStatus refreshing the flag from the platform before reporting
getPermissionStatusRefreshing(x, c) ==
  IF ~hasNotification
    THEN Returned(x, c, "getPermissionStatus", "throw")
    ELSE LET y == [x EXCEPT !.pg = (permission = "granted")] IN
         [Returned(y, c, "getPermissionStatus", "status") EXCEPT
            !.e.status = [permission |-> permission, granted |-> y.pg,
                          initialized |-> y.ini]]

\* lines 191-197
getPermissionStatus(x, c) ==
  IF ~hasNotification
    THEN \* ReferenceError at line 193, thrown to the caller
         Returned(x, c, "getPermissionStatus", "throw")
    ELSE [Returned(x, c, "getPermissionStatus", "status") EXCEPT
            !.e.status = [permission |-> permission, granted |-> x.pg,
                          initialized |-> x.ini]]

-----------------------------------------------------------------------------
(* Steps *)

\* a finished call leaves its result; its frames are gone, and their locals
\* with them
Settle(k) ==
  IF k.stack = <<>> THEN [IdleCall EXCEPT !.op = k.op, !.ret = k.ret] ELSE k

Commit(c, x) ==
  /\ swRegistration' = x.sw
  /\ permissionGranted' = x.pg
  /\ isInitialized' = x.ini
  /\ call' = [call EXCEPT ![c] = Settle(x.k)]
  /\ ev' = x.e
  /\ everGranted' = (everGranted \/ x.pg)

\* the context of a new call of operation op by caller c
Fresh(c, op) == [Ctx(c) EXCEPT !.k = [IdleCall EXCEPT !.op = op]]

Platform == <<permission, hasServiceWorker, hasNotification, now>>

CallInit(c) ==
  /\ ~InFlight(call[c])
  /\ Commit(c, init(Fresh(c, "init"), c))
  /\ UNCHANGED <<Platform, page>>

CallCheckPermission(c) ==
  /\ ~InFlight(call[c])
  /\ Commit(c, checkPermission(Fresh(c, "checkPermission"), c))
  /\ UNCHANGED <<Platform, page>>

CallRequestPermission(c) ==
  /\ ~InFlight(call[c])
  /\ Commit(c, requestPermission(Fresh(c, "requestPermission"), c,
                                 "requestPermission"))
  /\ UNCHANGED <<Platform, page>>

CallShowNotification(c, title, options) ==
  /\ ~InFlight(call[c])
  /\ Commit(c, showNotification(
                 [Fresh(c, "showNotification") EXCEPT
                    !.k.title = title,
                    \* the default parameter value, line 92
                    !.k.options = IF options.t = "undefined"
                                    THEN Arg("object", NoFields) ELSE options], c))
  /\ UNCHANGED <<Platform, page>>

CallNotifyNewMessage(c, chatName, messageContent, chatId) ==
  /\ ~InFlight(call[c])
  /\ Commit(c, notifyNewMessage(Fresh(c, "notifyNewMessage"), c,
                                chatName, messageContent, chatId))
  /\ UNCHANGED <<Platform, page>>

CallNotifySystem(c, message) ==
  /\ ~InFlight(call[c])
  /\ Commit(c, notifySystem(Fresh(c, "notifySystem"), c, message))
  /\ UNCHANGED <<Platform, page>>

CallTestNotification(c) ==
  /\ ~InFlight(call[c])
  /\ Commit(c, testNotification(Fresh(c, "testNotification"), c))
  /\ UNCHANGED <<Platform, page>>

CallGetPermissionStatus(c) ==
  /\ ~InFlight(call[c])
  /\ Commit(c, getPermissionStatus(Fresh(c, "getPermissionStatus"), c))
  /\ UNCHANGED <<Platform, page>>

Waiting(c, line) == InFlight(call[c]) /\ Top(call[c].stack) = line

\* navigator.serviceWorker.ready settles
ReadySettles(c, ok) ==
  /\ Waiting(c, 32)
  /\ Commit(c, initReady(Pop(Ctx(c)), c, ok))
  /\ UNCHANGED <<Platform, page>>

\* What Notification.requestPermission() can give: the user's answer when the
\* permission is still "default" (a dismissal leaves it "default"), the
\* decided permission otherwise, or an exception.
PromptOutcomes ==
  (IF permission = "default" THEN {"granted", "denied", "default"}
                             ELSE {permission}) \cup {"throw"}

PromptSettles(c, outcome) ==
  /\ Waiting(c, 75)
  /\ outcome \in PromptOutcomes
  /\ Commit(c, requestPermissionSettled(Pop(Ctx(c)), c, outcome))
  /\ permission' = IF outcome = "throw" THEN permission ELSE outcome
  /\ UNCHANGED <<hasServiceWorker, hasNotification, now, page>>

\* registration.showNotification settles; the platform rejects it unless the
\* permission is "granted", and may reject it anyway
DisplaySettles(c, ok) ==
  /\ Waiting(c, 134)
  /\ ok => permission = "granted"
  /\ Commit(c, showDisplayed(Pop(Ctx(c)), c, ok))
  /\ UNCHANGED <<Platform, page>>

ResumeInit(c) ==
  /\ Waiting(c, 36) /\ call[c].ret # "none"
  /\ Commit(c, initChecked(Pop(Ctx(c)), c))
  /\ UNCHANGED <<Platform, page>>

ResumeCheckPermission(c) ==
  /\ Waiting(c, 66) /\ call[c].ret # "none"
  /\ Commit(c, checkPermissionRequested(Pop(Ctx(c)), c))
  /\ UNCHANGED <<Platform, page>>

ResumeShowAfterInit(c) ==
  /\ Waiting(c, 96) /\ call[c].ret # "none"
  /\ Commit(c, showInitDone(Pop(Ctx(c)), c))
  /\ UNCHANGED <<Platform, page>>

ResumeShowAfterRequest(c) ==
  /\ Waiting(c, 106) /\ call[c].ret # "none"
  /\ Commit(c, showRequested(Pop(Ctx(c)), c))
  /\ UNCHANGED <<Platform, page>>

ResumeWrapper(c) ==
  /\ InFlight(call[c]) /\ Top(call[c].stack) \in {148, 165, 180}
  /\ call[c].ret # "none"
  /\ Commit(c, wrapperReturned(Pop(Ctx(c)), c))
  /\ UNCHANGED <<Platform, page>>

\* the user changes the site's notification permission in the browser
UserSetsPermission(p) ==
  /\ hasNotification
  /\ p # permission
  /\ permission' = p
  /\ ev' = NoEv
  /\ UNCHANGED <<swRegistration, permissionGranted, isInitialized,
                 hasServiceWorker, hasNotification, now, call, everGranted,
                 page>>

Tick ==
  /\ now < MaxClock
  /\ now' = now + 1
  /\ ev' = NoEv
  /\ UNCHANGED <<swRegistration, permissionGranted, isInitialized, permission,
                 hasServiceWorker, hasNotification, call, everGranted, page>>

-----------------------------------------------------------------------------
(* The script's load, lines 200-210.  page.readyState is document.readyState; *)
(* loaded: the script has run; listener: its DOMContentLoaded listener is     *)
(* registered; instances: managers constructed; autoInits: init calls made by *)
(* the script itself.  The script's init is caller "a"'s call.                *)

NotLoaded(readyState) ==
  [ readyState |-> readyState, loaded |-> FALSE, listener |-> FALSE,
    instances |-> 0, autoInits |-> 0 ]

\* the page once the script has run and its init has been issued
Loaded ==
  [ readyState |-> "complete", loaded |-> TRUE, listener |-> FALSE,
    instances |-> 1, autoInits |-> 1 ]

\* the script calling init after the if as well as in the listener
scriptRunAlwaysInit(readyState) ==
  [ listener |-> readyState = "loading", initNow |-> TRUE ]

\* lines 204-210: register the listener, or call init at once
scriptRun(readyState) ==
  [ listener |-> readyState = "loading", initNow |-> readyState # "loading" ]

\* lines 201-210
ModuleLoad ==
  /\ ~page.loaded
  /\ ~InFlight(call["a"])
  /\ LET r == scriptRun(page.readyState)
         x == [Fresh("a", "init") EXCEPT
                 \* the constructor, lines 7-11
                 !.sw = "null", !.pg = FALSE, !.ini = FALSE]
     IN /\ page' = [page EXCEPT !.loaded = TRUE,
                                !.listener = r.listener,
                                !.instances = @ + 1,
                                !.autoInits = @ + (IF r.initNow THEN 1 ELSE 0)]
        /\ IF r.initNow
             THEN Commit("a", init(x, "a"))
             ELSE /\ ev' = NoEv
                  /\ UNCHANGED <<swRegistration, permissionGranted,
                                 isInitialized, call, everGranted>>
  /\ UNCHANGED Platform

\* the document's DOMContentLoaded event, which runs the listener of line 206
DOMContentLoaded ==
  /\ page.readyState = "loading"
  /\ ~InFlight(call["a"])
  /\ page' = [page EXCEPT !.readyState = "interactive",
                          !.autoInits = @ + (IF page.listener THEN 1 ELSE 0)]
  /\ IF page.listener
       THEN Commit("a", init(Fresh("a", "init"), "a"))
       ELSE /\ ev' = NoEv
            /\ UNCHANGED <<swRegistration, permissionGranted, isInitialized,
                           call, everGranted>>
  /\ UNCHANGED Platform

-----------------------------------------------------------------------------
(* Inputs *)

Permissions == {"granted", "denied", "default"}

Titles == {Str("T")}

With(f, v) == Arg("object", [NoFields EXCEPT ![f] = v])

\* options arguments: none, null, {}, and one field supplied at a time with a
\* truthy and a falsy value of its type
OptionArgs ==
  { NoArg, Arg("null", NoFields), Arg("object", NoFields),
    With("body", Str("hi")), With("body", Str("")),
    With("icon", Str("i.png")), With("badge", Str("b.png")),
    With("tag", Str("t")), With("tag", Str("")),
    With("requireInteraction", True), With("requireInteraction", False),
    With("requireInteraction", Num(0)),
    With("vibrate", Obj("[100]")),
    With("data", Obj("{k:1}")), With("data", Null),
    With("silent", True), With("silent", False),
    With("timestamp", Num(5)), With("timestamp", Num(0)) }

\* the options used while another call is in flight
OverlapArgs == { NoArg, With("tag", Str("t")) }

ChatNames == {Str("Alice")}
Messages  == {Str("hi"), Str("")}
ChatIds   == {Num(42)}

-----------------------------------------------------------------------------
(* Specifications *)

Init ==
  /\ swRegistration = "null"
  /\ permissionGranted = FALSE
  /\ isInitialized = FALSE
  /\ permission \in Permissions
  /\ hasServiceWorker \in BOOLEAN
  /\ hasNotification \in BOOLEAN
  /\ now = 1
  /\ call = [c \in Callers |-> IdleCall]
  /\ ev = NoEv
  /\ everGranted = FALSE
  /\ page = Loaded

Environment ==
  \/ \E p \in Permissions : UserSetsPermission(p)
  \/ Tick

CoreCalls(c, args) ==
  \/ CallInit(c)
  \/ CallCheckPermission(c)
  \/ CallRequestPermission(c)
  \/ \E t \in Titles, o \in args : CallShowNotification(c, t, o)

WrapperCalls(c) ==
  \/ \E n \in ChatNames, m \in Messages, i \in ChatIds :
       CallNotifyNewMessage(c, n, m, i)
  \/ \E m \in Messages : CallNotifySystem(c, m)
  \/ CallTestNotification(c)
  \/ CallGetPermissionStatus(c)

CoreProgress(c) ==
  \/ \E ok \in BOOLEAN : ReadySettles(c, ok)
  \/ \E outcome \in Permissions \cup {"throw"} : PromptSettles(c, outcome)
  \/ \E ok \in BOOLEAN : DisplaySettles(c, ok)
  \/ ResumeInit(c)
  \/ ResumeCheckPermission(c)
  \/ ResumeShowAfterInit(c)
  \/ ResumeShowAfterRequest(c)

\* init, checkPermission, requestPermission and showNotification called by any
\* caller at any time, also while the other caller's call is in flight
Next ==
  \/ \E c \in Callers : CoreCalls(c, OverlapArgs)
  \/ \E c \in Callers : CoreProgress(c)
  \/ \E p \in Permissions : UserSetsPermission(p)

Spec == Init /\ [][Next]_vars

\* one caller, who awaits each call before issuing the next
SeqNext ==
  \/ CoreCalls("a", OptionArgs)
  \/ WrapperCalls("a")
  \/ CoreProgress("a")
  \/ ResumeWrapper("a")
  \/ Environment

SeqSpec == Init /\ [][SeqNext]_vars


\* the page from before the script runs: the script's own init (caller "a")
\* and the application's calls (caller "b") once the manager exists
LoadInit ==
  /\ swRegistration = "null"
  /\ permissionGranted = FALSE
  /\ isInitialized = FALSE
  /\ permission \in Permissions
  /\ hasServiceWorker \in BOOLEAN
  /\ hasNotification \in BOOLEAN
  /\ now = 1
  /\ call = [c \in Callers |-> IdleCall]
  /\ ev = NoEv
  /\ everGranted = FALSE
  /\ page \in {NotLoaded(r) : r \in {"loading", "interactive", "complete"}}

LoadNext ==
  \/ ModuleLoad
  \/ DOMContentLoaded
  \/ CoreProgress("a")
  \/ page.loaded /\ CoreCalls("b", OverlapArgs)
  \/ CoreProgress("b")
  \/ \E p \in Permissions : UserSetsPermission(p)

LoadSpec == LoadInit /\ [][LoadNext]_vars

\* SeqSpec where every platform call the manager waits on settles and every
\* resumed continuation runs
FairSeqSpec ==
  SeqSpec /\ WF_vars(CoreProgress("a") \/ ResumeWrapper("a"))

-----------------------------------------------------------------------------
(* Properties *)

HasFrame(k, line) == \E i \in DOMAIN k.stack : k.stack[i] = line

Returns(fn) == ev.kind = "ret" /\ ev.fn = fn

\* C1: the display primitive is invoked only at a moment when swRegistration
\* is non-null and permissionGranted is true, under any interleaving of calls.
C1_DisplayOnlyWhenGranted ==
  ev.kind = "display" => swRegistration # "null" /\ permissionGranted

\* C2: while the platform permission is "denied" the display primitive is not
\* invoked and showNotification does not return true, whatever the flag says.
C2_DeniedNeverDisplays ==
  /\ ev.kind = "display" => permission # "denied"
  /\ Returns("showNotification") /\ ev.val = "true" => permission # "denied"

\* C3 as stated: checkPermission returns true iff the permission it read is
\* "granted", returns false without prompting iff it is "denied", and prompts
\* iff it is "default".
C3_TrueIffReadGranted ==
  Returns("checkPermission") /\ ev.val # "throw" =>
    /\ ev.val = "true" <=> ev.k.chkRead = "granted"
    /\ (ev.val = "false" /\ ev.k.nPrompt = 0) <=> ev.k.chkRead = "denied"
    /\ ev.k.nPrompt > 0 <=> ev.k.chkRead = "default"

\* C3 amended: checkPermission returns true without prompting iff the
\* permission it read is "granted", returns false without prompting iff it is
\* "denied", and prompts (once) iff it is "default", returning then true
\* exactly when the prompt resolved to "granted".
C3_CheckPermissionOutcome ==
  /\ ev.kind = "prompt" /\ ev.fn = "checkPermission" =>
       call[ev.c].chkRead = "default"
  /\ Returns("checkPermission") /\ ev.val # "throw" =>
       /\ (ev.val = "true" /\ ev.k.nPrompt = 0) <=> ev.k.chkRead = "granted"
       /\ (ev.val = "false" /\ ev.k.nPrompt = 0) <=> ev.k.chkRead = "denied"
       /\ ev.k.nPrompt > 0 <=> ev.k.chkRead = "default"
       /\ ev.k.nPrompt > 0 =>
            /\ ev.k.nPrompt = 1
            /\ ev.val = "true" <=> ev.k.promptRes = "granted"

\* C3 witness: checkPermission read "default", prompted, and returned true.
C3_Witness ==
  /\ Returns("checkPermission") /\ ev.val = "true"
  /\ ev.k.chkRead = "default" /\ ev.k.nPrompt = 1

\* C4: a showNotification call that found isInitialized false issues its own
\* prompt or a display call only after its init returned true, and returns
\* false with no display call when its init returned false.
C4_InitFirst ==
  /\ \A c \in Callers :
       LET k == call[c] IN
       (~k.wasInit /\ (HasFrame(k, 106) \/ HasFrame(k, 134) \/ k.nDisplay > 0))
         => k.initRet = "true"
  /\ Returns("showNotification") /\ ~ev.k.wasInit =>
       /\ ev.k.initRet \in {"true", "false"}
       /\ ev.k.initRet = "false" => ev.val = "false" /\ ev.k.nDisplay = 0

\* C4 witness: a call that started uninitialized has reached the display call.
C4_Witness ==
  \E c \in Callers :
    /\ call[c].op = "showNotification" /\ ~call[c].wasInit
    /\ call[c].initRet = "true" /\ HasFrame(call[c], 134)

\* C5: no public method ends with an error propagated to its caller.
C5_NoErrorPropagates ==
  \A c \in Callers : Finished(call[c]) => call[c].ret # "throw"

\* C6 as stated: swRegistration, isInitialized and permissionGranted only move
\* forward.
C6_AllForwardOnly ==
  [][ /\ swRegistration # "null" => swRegistration' # "null"
      /\ isInitialized => isInitialized'
      /\ permissionGranted => permissionGranted' ]_vars

\* C6 amended: swRegistration and isInitialized only move forward;
\* permissionGranted goes back to false only when checkPermission reads
\* "denied" or when requestPermission's prompt resolves to a value other than
\* "granted".
C6_ForwardExceptPermission ==
  [][ /\ swRegistration # "null" => swRegistration' # "null"
      /\ isInitialized => isInitialized'
      /\ (permissionGranted /\ ~permissionGranted') =>
           /\ ev'.kind = "ret" /\ ev'.val = "false"
           /\ \/ ev'.fn = "checkPermission" /\ ev'.k.chkRead = "denied"
              \/ ev'.fn = "requestPermission"
                   /\ ev'.k.promptRes \in {"denied", "default"} ]_vars

\* C6 witness: an initialized manager whose permissionGranted was true and is
\* false again.
C6_Witness ==
  everGranted /\ ~permissionGranted /\ isInitialized /\ swRegistration # "null"

\* C7: when requestPermission returns, permissionGranted equals the value
\* returned, which is true exactly when the prompt resolved to "granted".
C7_FlagEqualsResult ==
  Returns("requestPermission") =>
    /\ permissionGranted <=> ev.val = "true"
    /\ ev.val = "true" <=> ev.k.promptRes = "granted"

\* C8: init returns false, leaving isInitialized as it was, when a capability
\* is absent or the readiness wait rejects; otherwise it returns true with
\* swRegistration non-null, the permission evaluated by checkPermission and
\* isInitialized true, whatever the permission outcome.
C8_InitResult ==
  /\ [](Returns("init") =>
          /\ ev.val \in {"true", "false"}
          /\ ev.val = "false" <=>
               (~hasServiceWorker \/ ~hasNotification
                  \/ ev.k.readyRes = "reject")
          /\ ev.val = "true" =>
               /\ swRegistration # "null"
               /\ isInitialized
               /\ ev.k.readyRes = "ok"
               /\ ev.k.chkRead \in Permissions)
  /\ [][(ev'.kind = "ret" /\ ev'.fn = "init" /\ ev'.val = "false")
          => isInitialized' = isInitialized]_vars

\* C8 witness: init returned true although the permission was not granted.
C8_Witness ==
  Returns("init") /\ ev.val = "true" /\ ~permissionGranted

\* C9: showNotification returns true iff it invoked the display primitive
\* exactly once and that invocation completed without error; otherwise false.
C9_TrueIffDisplayed ==
  /\ \A c \in Callers : call[c].nDisplay <= 1
  /\ Returns("showNotification") =>
       /\ ev.val \in {"true", "false"}
       /\ ev.val = "true" <=> (ev.k.nDisplay = 1 /\ ev.k.displayRes = "ok")

\* C9 witness: showNotification returned false after a display call that threw.
C9_Witness ==
  /\ Returns("showNotification") /\ ev.val = "false"
  /\ ev.k.nDisplay = 1 /\ ev.k.displayRes = "throw"

\* C10: every option field the caller supplies, falsy values included, is
\* dispatched with the caller's value.
C10_SuppliedFieldsKept ==
  ev.kind = "display" =>
    \A f \in Fields :
      call[ev.c].options.o[f] # Undefined =>
        ev.options[f] = call[ev.c].options.o[f]


\* C11: with empty options the display primitive receives the default body,
\* requireInteraction true, vibrate [200,100,200], data {}, silent false, the
\* current time as timestamp and "msg-" followed by the current time as tag.
C11_EmptyOptionsDefaults ==
  (ev.kind = "display" /\ call[ev.c].op = "showNotification"
     /\ call[ev.c].options = Arg("object", NoFields)) =>
    /\ ev.options.body = DefaultBody
    /\ ev.options.requireInteraction = JS("boolean", "true")
    /\ ev.options.vibrate = JS("object", "[200,100,200]")
    /\ ev.options.data = JS("object", "{}")
    /\ ev.options.silent = JS("boolean", "false")
    /\ ev.options.timestamp = JS("number", ToString(now))
    /\ ev.options.tag = JS("string", "msg-" \o ToString(now))

\* C11 witness: a dispatch with empty options after the clock has advanced.
C11_Witness ==
  /\ ev.kind = "display" /\ call[ev.c].op = "showNotification"
  /\ call[ev.c].options = Arg("object", NoFields)
  /\ now = 2 /\ ev.options.tag = Str("msg-2")


\* C12: two distinct showNotification calls that both omit the tag option and
\* both reach dispatch pass different tags to the display primitive, also
\* when both read the same clock value.
C12_DefaultTagUnique ==
  \A c, d \in Callers :
    (/\ c # d
     /\ HasFrame(call[c], 134) /\ HasFrame(call[d], 134)
     /\ call[c].options.o.tag = Undefined
     /\ call[d].options.o.tag = Undefined)
      => call[c].sent.tag # call[d].sent.tag


\* C13: when notifyNewMessage reaches dispatch the display primitive gets
\* title = chatName, body = messageContent, tag = "chat-" followed by chatId,
\* data.type = "chat", data.chatId = chatId and requireInteraction = true,
\* also for falsy arguments such as an empty messageContent.
C13_NewMessageDispatch ==
  (ev.kind = "display" /\ call[ev.c].op = "notifyNewMessage") =>
    LET chatName       == call[ev.c].args[1]
        messageContent == call[ev.c].args[2]
        chatId         == call[ev.c].args[3]
    IN /\ ev.title = chatName
       /\ ev.options.body = messageContent
       /\ ev.options.tag = JS("string", "chat-" \o chatId.s)
       /\ \E t \in 1..now :
            ev.options.data =
              JS("object", "{type:'chat',chatId:" \o chatId.s
                           \o ",timestamp:" \o ToString(t) \o "}")
       /\ ev.options.requireInteraction = JS("boolean", "true")


\* C14: when notifySystem reaches dispatch the display primitive gets
\* title = "EPhone", tag = "system", data = {type:"system"} and
\* requireInteraction = false: the wrapper's false overrides the default true.
C14_SystemDispatch ==
  (ev.kind = "display" /\ call[ev.c].op = "notifySystem") =>
    /\ ev.title = JS("string", "EPhone")
    /\ ev.options.tag = JS("string", "system")
    /\ ev.options.data = JS("object", "{type:'system'}")
    /\ ev.options.requireInteraction = JS("boolean", "false")

\* C14 witness: notifySystem with an empty message has reached dispatch.
C14_Witness ==
  /\ ev.kind = "display" /\ call[ev.c].op = "notifySystem"
  /\ call[ev.c].args = <<Str("")>>
  /\ ev.options.requireInteraction = False


\* C15: getPermissionStatus returns the current platform permission with the
\* current permissionGranted and isInitialized, changes none of the manager's
\* fields and invokes neither the prompt nor the display primitive; after an
\* init with the permission "granted" that is
\* {permission: "granted", granted: true, initialized: true}.
C15_StatusIsSnapshot ==
  [][ (ev'.kind = "ret" /\ ev'.fn = "getPermissionStatus") =>
        /\ UNCHANGED <<swRegistration, permissionGranted, isInitialized,
                       permission>>
        /\ ev'.k.nPrompt = 0 /\ ev'.k.nDisplay = 0
        /\ ev'.val = "status" =>
             ev'.status = [permission  |-> permission,
                           granted     |-> permissionGranted,
                           initialized |-> isInitialized] ]_vars

\* C15 witness: the status returned after a granted initialization.
C15_Witness ==
  /\ Returns("getPermissionStatus")
  /\ ev.status = [permission |-> "granted", granted |-> TRUE,
                  initialized |-> TRUE]


\* C16: on load exactly one manager is created and the script calls init on
\* it exactly once: at once if the document is no longer loading, otherwise
\* when DOMContentLoaded fires, and never before it.
C16_OneAutoInit ==
  /\ page.instances = (IF page.loaded THEN 1 ELSE 0)
  /\ page.autoInits =
       (IF page.loaded /\ page.readyState # "loading" THEN 1 ELSE 0)

\* C16 witness: the script ran while the document was loading and the event
\* has fired since.
C16_Witness ==
  /\ page.loaded /\ page.listener /\ page.readyState = "interactive"
  /\ page.autoInits = 1 /\ call["a"].op = "init"


\* C17: no retries within a call: one showNotification call invokes the
\* permission prompt at most once and the display primitive at most once.
C17_NoRetry ==
  \A c \in Callers :
    call[c].op = "showNotification" =>
      call[c].nPrompt <= 1 /\ call[c].nDisplay <= 1


\* the last answer about the permission that the platform gave a call:
\* how its last prompt settled, else what its checkPermission read
LastAnswer(k) == IF k.promptRes # "none" THEN k.promptRes ELSE k.chkRead

\* C18: overlapping calls behave as some sequential execution of the same
\* calls with the same platform responses.  In every sequential execution a
\* showNotification call returns true only if the platform's last answer to
\* it about the permission was not "denied" or "default".
C18_AsSequential ==
  (Returns("showNotification") /\ ev.val = "true") =>
     LastAnswer(ev.k) \notin {"denied", "default"}


\* C19: when every platform call the manager makes settles, every init,
\* checkPermission, requestPermission and showNotification call returns.
C19_CallsReturn ==
  \A op \in {"init", "checkPermission", "requestPermission", "showNotification"} :
    (InFlight(call["a"]) /\ call["a"].op = op)
       ~> (Returns(op) /\ ev.c = "a" /\ ~InFlight(call["a"]))

\* C19 witness: a showNotification call that waited for the worker, for two
\* prompts and for the display has returned.
C19_Witness ==
  /\ Returns("showNotification") /\ ~InFlight(call["a"])
  /\ ev.k.readyRes # "none" /\ ev.k.nPrompt = 2 /\ ev.k.nDisplay = 1


\* C20: isInitialized implies a non-null swRegistration, so showNotification
\* never takes its "worker absent" abort (line 114) once it is past the
\* initialization.
C20_InitializedHasWorker ==
  /\ isInitialized => swRegistration # "null"
  /\ ~ev.k.noWorker
  /\ \A c \in Callers : ~call[c].noWorker

\* C20 witness: on an initialized manager a further init failed at the
\* readiness wait, and a showNotification call is past line 114.
C20_Witness ==
  /\ isInitialized
  /\ Returns("init") /\ ev.val = "false" /\ ev.k.readyRes = "reject"
  /\ \E c \in Callers : c # ev.c /\ HasFrame(call[c], 134)

=============================================================================
